---- MODULE Spec2Model ----
(***************************************************************************)
(* State-machine model of the smart_glasses firmware:                      *)
(*   - the serial-triggered describe/solve sketch (capture, description    *)
(*     POST with raw-socket fallback, speech POST, WAV parsing, I2S        *)
(*     playback), and                                                      *)
(*   - the periodic raw-JPEG upload sketch (esp32_cam_vercel_https.ino).   *)
(* 32-bit unsigned quantities (size_t, uint32_t) are pairs <<hi, lo>> of   *)
(* 16-bit halves, added modulo 2^32.                                       *)
(***************************************************************************)
EXTENDS Integers, Sequences, FiniteSets, TLC

\* ------------------------------------------------------------------ bounds
\* Longest chunk list of a generated speech body in the parser specification.
MaxChunks == 2
\* Describe/solve cycles (resp. upload rounds) explored.
MaxCycles == 2
\* Iterations of the chunk walk that are counted.
MaxIters == 16

\* ------------------------------------------------- 32-bit unsigned arithmetic
M16 == 256 * 256

U32(n) == <<n \div M16, n % M16>>

Add32(a, b) ==
    LET lo == a[2] + b[2]
    IN  <<(a[1] + b[1] + (lo \div M16)) % M16, lo % M16>>

\* a > n for a 32-bit a and a small natural n (n < 2^16)
Gt32(a, n) == a[1] > 0 \/ a[2] > n

\* ------------------------------------------------------------- byte buffers
\* data[i] of the C code is buf[i + 1] here.
LE16(n) == <<n % 256, (n \div 256) % 256>>
LE32(w) == LE16(w[2]) \o LE16(w[1])

RdU16(buf, i) == buf[i + 1] + 256 * buf[i + 2]
RdU32(buf, i) == <<RdU16(buf, i + 2), RdU16(buf, i)>>
RdId(buf, i)  == SubSeq(buf, i + 1, i + 4)

ID_RIFF == <<82, 73, 70, 70>>
ID_WAVE == <<87, 65, 86, 69>>
ID_FMT  == <<102, 109, 116, 32>>
ID_DATA == <<100, 97, 116, 97>>
ID_LIST == <<76, 73, 83, 84>>

\* A read of n bytes at data + pos + off stays inside the buffer.
InBuf(len, pos, off, n) == pos[1] = 0 /\ pos[2] + off + n <= len

\* What an out-of-bounds read may deliver: whatever lies next to the buffer.
StrayId  == {ID_FMT, ID_DATA, ID_LIST}
StrayU32 == {U32(0), U32(16), <<65535, 65535>>}
StrayU16 == {0, 1, 16}

SeenId(buf, pos) ==
    IF InBuf(Len(buf), pos, 0, 4) THEN {RdId(buf, pos[2])} ELSE StrayId
SeenU32(buf, pos, off) ==
    IF InBuf(Len(buf), pos, off, 4) THEN {RdU32(buf, pos[2] + off)} ELSE StrayU32
SeenU16(buf, pos, off) ==
    IF InBuf(Len(buf), pos, off, 2) THEN {RdU16(buf, pos[2] + off)} ELSE StrayU16

\* ----------------------------------------------------- generated speech bodies
Chunk(id, sz, body) == id \o LE32(sz) \o body

\* The 16-byte body of a format sub-chunk.
FmtBody(fmt, ch, rate, bits) ==
    LE16(fmt) \o LE16(ch) \o LE32(U32(rate)) \o LE32(U32(rate * ch * (bits \div 8)))
        \o LE16(ch * (bits \div 8)) \o LE16(bits)

Samples == <<11, 12, 13, 14>>

FmtChunks ==
    { Chunk(ID_FMT, U32(16), FmtBody(1, 1, 16000, 16)),
      Chunk(ID_FMT, U32(16), FmtBody(1, 2, 8000, 16)),
      Chunk(ID_FMT, U32(16), FmtBody(3, 1, 16000, 16)),
      Chunk(ID_FMT, U32(16), FmtBody(1, 1, 16000, 8)),
      Chunk(ID_FMT, U32(0), <<>>),
      Chunk(ID_FMT, <<65535, 65520>>, FmtBody(1, 1, 16000, 16)) }

DataChunks ==
    { Chunk(ID_DATA, U32(4), Samples),
      Chunk(ID_DATA, U32(8), Samples),
      Chunk(ID_DATA, <<65535, 65535>>, Samples) }

OtherChunks ==
    { Chunk(ID_LIST, U32(4), <<1, 2, 3, 4>>),
      Chunk(ID_LIST, U32(100), <<>>),
      Chunk(ID_LIST, <<65535, 65528>>, <<>>),
      Chunk(ID_LIST, <<65535, 65512>>, <<>>) }

WavMenu == FmtChunks \cup DataChunks \cup OtherChunks

Zeros(n) == [i \in 1..n |-> 0]

RECURSIVE Concat(_)
Concat(ss) == IF ss = <<>> THEN <<>> ELSE Head(ss) \o Concat(Tail(ss))

ChunkLists(n) == UNION { [1..k -> WavMenu] : k \in 0..n }

RiffHeader(riff, wave) == riff \o LE32(U32(36)) \o wave

\* Tail bytes after the last chunk: none, zero padding up to the 44-byte
\* minimum, or eight further bytes.
WithTail(b) ==
    { b, b \o Zeros(8) } \cup (IF Len(b) < 44 THEN { b \o Zeros(44 - Len(b)) } ELSE {})

WavBuffers(n) ==
    UNION { WithTail(RiffHeader(ID_RIFF, ID_WAVE) \o Concat(cs)) : cs \in ChunkLists(n) }
    \cup { RiffHeader(ID_LIST, ID_WAVE) \o Zeros(32),
           RiffHeader(ID_RIFF, ID_LIST) \o Zeros(32),
           RiffHeader(ID_RIFF, ID_WAVE) \o Chunk(ID_DATA, U32(0), <<>>) }

\* ------------------------------------------------------------ parseWavHeader
\* One iteration of the chunk walk, after the 8-byte chunk header (id, sz) was
\* read at pos: the verdict, the cursor, and what it stores.
\*   fmt, ch, rate, bits are the fields read at the advanced cursor.
WavStep(len, pos, id, sz, fmt, ch, rate, bits) ==
    LET p == Add32(pos, U32(8))
    IN  IF id = ID_FMT THEN
            IF Gt32(Add32(p, sz), len) THEN
                [res |-> "fail", pos |-> p, cfg |-> FALSE, why |-> "fmt-bounds"]
            ELSE IF fmt # 1 \/ bits # 16 THEN
                [res |-> "fail", pos |-> p, cfg |-> FALSE, why |-> "fmt-format"]
            ELSE
                [res |-> "next", pos |-> Add32(p, sz), cfg |-> TRUE, why |-> "fmt"]
        ELSE IF id = ID_DATA THEN
            IF Gt32(Add32(p, sz), len) THEN
                [res |-> "fail", pos |-> p, cfg |-> FALSE, why |-> "data-bounds"]
            ELSE
                [res |-> "ok", pos |-> p, cfg |-> FALSE, why |-> "data"]
        ELSE
            [res |-> "next", pos |-> Add32(p, sz), cfg |-> FALSE, why |-> "skip"]

\* while (pos + 8 <= len)
WavLoopGuard(len, pos) == ~Gt32(Add32(pos, U32(8)), len)

\* if (len < 44) / memcmp "RIFF", "WAVE"
WavMagicOk(data) ==
    /\ Len(data) >= 44
    /\ RdId(data, 0) = ID_RIFF
    /\ RdId(data, 8) = ID_WAVE

\* ------------------------------------------------------------------- state
VARIABLES
    sketch,        \* which sketch runs: "glasses" (describe/solve) or "rawcam"
    pc,            \* position of the single thread of control
    cycles,        \* commands (upload rounds) started so far
    wifi,          \* WiFi.status() == WL_CONNECTED
    synced,        \* ensureTimeSynced's static flag
    g_sampleRate,  \* session audio configuration
    g_channels,
    i2sInstalled,  \* an I2S driver is installed on I2S_NUM_0
    i2sClk,        \* sample rate the peripheral is clocked for (0 before any)
    flash,         \* FLASH_GPIO_NUM level
    checked,       \* which of ensureWifi / ensureTimeSynced ran in this cycle
    refetched,     \* a time fetch was started although the flag was already set
    fb,            \* the frame the local fb refers to: "null", "held", "returned"
    fbOut,         \* frame buffers handed out by the camera and not yet returned
    fbBad,         \* a frame was returned twice or used after its return
    prompt,        \* prompt of the running cycle
    b64,           \* encoded image
    result,        \* outResponse
    ret,           \* return value of the function that returned last
    code,          \* primary path: result of HTTPClient::POST (0 before it ran)
    posted,        \* the primary POST of the current request was issued
    status,        \* fallback path: parsed status (-1 before a status line was parsed)
    fellBack,      \* the raw-socket fallback was attempted for the current request
    toWrite,       \* fallback path: body bytes still to write
    pOff,          \* fallback path: offset of p in the body
    asked,         \* fallback path: size handed to the last body write
    httpOpen,      \* the HTTPClient's connection is open
    sockOpen,      \* the direct socket is connected
    respBody,      \* postToBackend: the response body received (body / respBody)
    ttsSent,       \* a speech request was sent in this cycle
    initCalled,    \* initI2S ran in this cycle
    contentLen,    \* http.getSize() of the speech response
    allocated,     \* the audio buffer was allocated
    nread,         \* body bytes read so far
    body,          \* body bytes the server delivers
    buf,           \* the audio buffer as read
    pos,           \* parseWavHeader: cursor (32-bit)
    sz,            \* parseWavHeader: declared length of the chunk read last
    dataOffset,    \* parseWavHeader: outDataOffset (32-bit)
    fmtSeen,       \* a format sub-chunk passed the PCM/16-bit check in this parse
    oob,           \* a read outside [0, len) happened in this parse
    parseRes,      \* "none", "ok", "fail"
    iters,         \* iterations of the chunk walk so far (counted up to MaxIters)
    pcmLen,        \* speakText: pcmLen
    written,       \* i2sPlayPCM16: written
    played,        \* bytes accepted by the peripheral in this speakText
    zeroed,        \* i2s_zero_dma_buffer calls in this speakText
    i2sCalls,      \* i2s_write calls in this speakText, modulo 2
    msgs,          \* lines printed on the serial channel in this cycle
    line,          \* loop(): the line read last from the serial channel
    text,          \* jsonEscape: the string to escape
    escaped,       \* jsonEscape: the string returned
    respIn,        \* fallback response: the lines after the status line
    respAt,        \* fallback response: index of the next line to read
    headerDone,    \* fallback response: the blank line has been read
    respAcc,       \* fallback response: respBody, as runs of one character
    upParts,       \* upload route: file parts in the request
    upFile,        \* upload route: state of each file part announced so far
    fileBuffer,    \* upload route: part whose bytes fileBuffer holds, 0 for null
    apiKey,        \* upload route: OPENAI_API_KEY is set
    fin,           \* upload route: the 'finish' handler: "no", "await", "done"
    resCalls,      \* upload route: calls of res.json for this request
    log            \* what the running cycle did so far, in order

accVars   == <<respIn, respAt, headerDone, respAcc>>
upVars    == <<upParts, upFile, fileBuffer, apiKey, fin, resCalls>>
pureVars  == <<text, escaped, accVars, upVars>>
ioVars    == <<line, pureVars>>
devVars   == <<sketch, wifi, synced, i2sInstalled, flash, checked, refetched>>
camVars   == <<fb, fbOut, fbBad>>
cfgVars   == <<g_sampleRate, g_channels>>
reqVars   == <<code, posted, status, fellBack, toWrite, pOff, asked, httpOpen, sockOpen,
               respBody>>
cycVars   == <<cycles, prompt, b64, result, ttsSent, initCalled>>
bodyVars  == <<contentLen, allocated, nread, body, buf>>
parseVars == <<pos, sz, dataOffset, fmtSeen, oob, parseRes, iters>>
playVars  == <<pcmLen, written, played, zeroed, i2sCalls>>

vars == <<ioVars, log, devVars, camVars, cfgVars, reqVars, cycVars, bodyVars, parseVars, playVars,
          pc, ret, i2sClk, msgs>>

\* ------------------------------------------------------------ command channel
CMD_DESCRIBE == <<100, 101, 115, 99, 114, 105, 98, 101>>
CMD_SOLVE    == <<115, 111, 108, 118, 101>>

PROMPT_DESCRIBE == "Describe the image in one short sentence."
PROMPT_SOLVE    ==
    "Solve the problem shown in this image. Provide only the final concise answer in one short sentence."

\* Lines the serial channel may deliver (ASCII codes, without the newline):
\* describe, solve, Describe, "  SOLVE\r", hello, "describe it", "" and "   ".
SerialLines ==
    { CMD_DESCRIBE, CMD_SOLVE,
      <<68, 101, 115, 99, 114, 105, 98, 101>>,
      <<32, 32, 83, 79, 76, 86, 69, 13>>,
      <<104, 101, 108, 108, 111>>,
      <<100, 101, 115, 99, 114, 105, 98, 101, 32, 105, 116>>,
      <<>>,
      <<32, 32, 32>> }

IsSpace(c) == c = 32 \/ (c >= 9 /\ c <= 13)

\* String::trim
RECURSIVE TrimLeft(_)
TrimLeft(t) == IF t # <<>> /\ IsSpace(Head(t)) THEN TrimLeft(Tail(t)) ELSE t
RECURSIVE TrimRight(_)
TrimRight(t) ==
    IF t # <<>> /\ IsSpace(t[Len(t)]) THEN TrimRight(SubSeq(t, 1, Len(t) - 1)) ELSE t
Trim(t) == TrimRight(TrimLeft(t))

\* (mutant) letters keep their case
ToLower_AsIs(t) == t

\* String::toLowerCase
ToLower(t) == [i \in 1..Len(t) |-> IF t[i] >= 65 /\ t[i] <= 90 THEN t[i] + 32 ELSE t[i]]

\* ---------------------------------------------------------------- the camera
\* esp_camera_fb_get succeeded: the local fb now refers to a fresh frame.
CamGet(f, out, bad) == [fb |-> "held", out |-> out + 1, bad |-> bad]

\* esp_camera_fb_return(fb)
CamReturn(f, out, bad) ==
    [fb |-> "returned", out |-> IF f = "held" THEN out - 1 ELSE out,
     bad |-> (bad \/ f # "held")]

\* a read of fb->buf, fb->len
CamUse(f, out, bad) == [fb |-> f, out |-> out, bad |-> (bad \/ f # "held")]

\* (mutant) the stale first frame is never handed back
DiscardFrame_Forgotten(f, out, bad) == [fb |-> f, out |-> out, bad |-> bad]

\* captureAndSend: the stale first frame is handed back
DiscardFrame(f, out, bad) == CamReturn(f, out, bad)

\* captureAndSend: encodeImageToBase64(fb->buf, fb->len), esp_camera_fb_return(fb)
EncodeAndRelease(f, out, bad) ==
    LET u == CamUse(f, out, bad) IN CamReturn(u.fb, u.out, u.bad)

\* loop() of the raw sketch: esp_camera_fb_return(fb) after postRawJpeg
ReleaseAfterUpload(f, out, bad) == CamReturn(f, out, bad)

\* ------------------------------------------------------------ session helpers
\* i2s_set_clk on the installed driver
I2sSetClk(installed, clk, rate) == IF installed THEN rate ELSE clk

\* const size_t pcmLen = read - dataOffset
PcmLen(read, off) == read - off[2]

\* ensureWifi: connected already, or after the bounded wait, or not
WifiOutcomes == BOOLEAN

\* (mutant) the flag is not consulted
TimeSyncOutcomes_Forgetful(s) == BOOLEAN

\* ensureTimeSynced: sticky once true, else the outcome of the bounded wait
TimeSyncOutcomes(s) == IF s THEN {TRUE} ELSE BOOLEAN

\* ensureTimeSynced: configTime and the wait run unless `if (synced) return true`
TimeFetchStarted(s) == ~s

\* values HTTPClient::POST may return: a client error or an HTTP status
HttpCodes == {-1, 101, 200, 399, 400, 500}

\* (mutant) success only for 2xx/3xx
PrimaryOk_From200(c) == c >= 200 /\ c < 400

\* if (code > 0 && code < 400)
PrimaryOk(c) == c > 0 /\ c < 400

\* status parsed from the fallback's status line (-1: none, 0: not a number)
FallbackStatuses == {-1, 0, 200, 399, 400, 500}

\* (mutant) any parsed status counts as success
FallbackOk_AnyStatus(st) == st > 0

\* if (status > 0 && status < 400)
FallbackOk(st) == st > 0 /\ st < 400

\* response bodies of the description endpoint
\*   raw: the bytes; json: deserializeJson succeeds; key: containsKey("text");
\*   str: the member is a JSON string; val: resp["text"].as<String>()
DescBodies ==
    { [raw |-> "{\"text\":\"A red mug on a desk.\"}", json |-> TRUE, key |-> TRUE,
       str |-> TRUE, val |-> "A red mug on a desk."],
      [raw |-> "{\"text\":\"\"}", json |-> TRUE, key |-> TRUE, str |-> TRUE, val |-> ""],
      [raw |-> "{\"text\":null}", json |-> TRUE, key |-> TRUE, str |-> FALSE,
       val |-> "null"],
      [raw |-> "{\"error\":\"Vision processing failed\"}", json |-> TRUE, key |-> FALSE,
       str |-> FALSE, val |-> ""],
      [raw |-> "<html>502</html>", json |-> FALSE, key |-> FALSE, str |-> FALSE,
       val |-> ""],
      [raw |-> "", json |-> FALSE, key |-> FALSE, str |-> FALSE, val |-> ""] }

\* String body before anything was received
NoBody == [raw |-> "", json |-> FALSE, key |-> FALSE, str |-> FALSE, val |-> ""]

\* deserializeJson + containsKey("text") ? resp["text"] : body
ExtractText(b) == IF b.json /\ b.key THEN b.val ELSE b.raw

\* bytes of the JSON payload: braces and field names, the image, the prompt
ImgB64Len == 2000
PayloadLen == 64 + ImgB64Len + 41

\* bytes a socket write of k bytes may accept
SocketAccepts(k) == {k, 0} \cup {n \in {512} : n < k}

\* (mutant) the whole remainder is handed to one write
WriteSize_Whole(n) == n

\* toWrite > 1024 ? 1024 : toWrite
WriteSize(n) == IF n > 1024 THEN 1024 ELSE n

\* (mutant) the socket is left as it was
DirectStop_LeftOpen(open) == open

\* direct.stop()
DirectStop(open) == FALSE

\* http.end() with setReuse(false)
HttpEnd(open) == FALSE

\* ------------------------------------------------------------- the cycle's record
\* entries the record of one cycle can hold
MaxLog == 16

\* the record with the steps evs appended
Logged(l, evs) == IF Len(l) + Len(evs) <= MaxLog THEN l \o evs ELSE l

\* --------------------------------------------------------- loop (describe/solve)
Locals0 ==
    /\ prompt' = "" /\ b64' = "" /\ result' = "" /\ ret' = FALSE
    /\ code' = 0 /\ posted' = FALSE /\ status' = -1 /\ fellBack' = FALSE /\ toWrite' = 0
    /\ pOff' = 0 /\ asked' = 0
    /\ UNCHANGED <<httpOpen, sockOpen>>
    /\ respBody' = NoBody
    /\ ttsSent' = FALSE /\ initCalled' = FALSE
    /\ contentLen' = 0 /\ allocated' = FALSE /\ nread' = 0 /\ body' = <<>> /\ buf' = <<>>
    /\ pos' = U32(0) /\ sz' = U32(0) /\ dataOffset' = U32(0)
    /\ fmtSeen' = FALSE /\ oob' = FALSE /\ parseRes' = "none" /\ iters' = 0
    /\ pcmLen' = 0 /\ written' = 0 /\ played' = <<>> /\ zeroed' = 0 /\ i2sCalls' = 0
    /\ log' = <<>>

\* loop(): a line arrived on the serial channel
Command ==
    /\ sketch = "glasses" /\ pc = "idle"
    /\ \E l \in SerialLines :
         LET cmd == ToLower(Trim(l))
         IN  /\ line' = l
             /\ IF cmd = CMD_DESCRIBE \/ cmd = CMD_SOLVE
                THEN /\ cycles < MaxCycles
                     /\ cycles' = cycles + 1
                     /\ prompt' = IF cmd = CMD_DESCRIBE THEN PROMPT_DESCRIBE ELSE PROMPT_SOLVE
                     /\ msgs' = {"Capturing..."}
                     /\ log' = <<>>
                     /\ pc' = "cas_light"
                     /\ UNCHANGED <<pureVars, devVars, camVars, cfgVars, reqVars, bodyVars,
                                    parseVars, playVars, b64, result, ttsSent, initCalled,
                                    ret, i2sClk>>
                ELSE /\ msgs' = IF Len(cmd) > 0 THEN {"Unknown command"} ELSE msgs
                     /\ UNCHANGED <<pureVars, log, devVars, camVars, cfgVars, reqVars, cycVars,
                                    bodyVars, parseVars, playVars, pc, ret, i2sClk>>

\* loop(): captureAndSend returned, the Ready prompt is printed
LoopReady ==
    /\ pc = "cas_ret"
    /\ pc' = "idle"
    /\ msgs' = {"Ready"}
    /\ fb' = "null"
    /\ checked' = {}
    /\ Locals0
    /\ UNCHANGED <<refetched, ioVars, sketch, wifi, synced, i2sInstalled, flash, cfgVars,
                   cycles, fbOut, fbBad,
                   i2sClk>>

\* ----------------------------------------------------------- captureAndSend
CasLightOn ==
    /\ pc = "cas_light"
    /\ flash' = TRUE
    /\ log' = Logged(log, <<"light_on", "settle">>)
    /\ pc' = "cas_get1"
    /\ UNCHANGED <<refetched, ioVars, sketch, wifi, synced, i2sInstalled, checked, camVars,
                   cfgVars, reqVars, cycVars,
                   bodyVars, parseVars, playVars, ret, i2sClk, msgs>>

\* fb = esp_camera_fb_get(), first or second time
CasGet(here, next) ==
    /\ pc = here
    /\ \E ok \in BOOLEAN :
         IF ok
         THEN LET c == CamGet(fb, fbOut, fbBad)
              IN  /\ fb' = c.fb /\ fbOut' = c.out /\ fbBad' = c.bad
                  /\ pc' = next
                  /\ msgs' = msgs
                  /\ log' = Logged(log, <<"frame_get">>)
         ELSE /\ fb' = "null"
              /\ log' = Logged(log, <<"frame_none">>)
              /\ msgs' = msgs \cup {"Capture failed"}
              /\ pc' = "cas_ret"
              /\ UNCHANGED <<fbOut, fbBad>>
    /\ UNCHANGED <<ioVars, devVars, cfgVars, reqVars, cycVars, bodyVars, parseVars, playVars,
                   ret, i2sClk>>

CasGetFirst  == CasGet("cas_get1", "cas_discard")
CasGetSecond == CasGet("cas_get2", "cas_encode")

CasDiscard ==
    /\ pc = "cas_discard"
    /\ LET c == DiscardFrame(fb, fbOut, fbBad)
       IN  fb' = c.fb /\ fbOut' = c.out /\ fbBad' = c.bad
    /\ log' = Logged(log, <<"frame_return">>)
    /\ pc' = "cas_get2"
    /\ UNCHANGED <<ioVars, devVars, cfgVars, reqVars, cycVars, bodyVars, parseVars, playVars,
                   ret, i2sClk, msgs>>

\* (mutant) the light is left as it is after the capture
LightAfterCapture_AsBefore(f) == f

\* digitalWrite(FLASH_GPIO_NUM, LOW) after the capture
LightAfterCapture(f) == FALSE

\* encode, hand the frame back, light off, isEmpty check
CasEncode ==
    /\ pc = "cas_encode"
    /\ LET c == EncodeAndRelease(fb, fbOut, fbBad)
       IN  fb' = c.fb /\ fbOut' = c.out /\ fbBad' = c.bad
    /\ flash' = LightAfterCapture(flash)
    /\ log' = Logged(log, <<"encode", "frame_return">>
                          \o (IF LightAfterCapture(flash) THEN <<>> ELSE <<"light_off">>))
    /\ \E e \in {"", "img"} :
         /\ b64' = e
         /\ IF e = ""
            THEN msgs' = msgs \cup {"Encode failed"} /\ pc' = "cas_ret"
            ELSE msgs' = msgs \cup {"Processing..."} /\ pc' = "ptb_wifi"
    /\ UNCHANGED <<refetched, ioVars, sketch, wifi, synced, i2sInstalled, checked, cfgVars,
                   reqVars, bodyVars,
                   parseVars, playVars, cycles, prompt, result, ttsSent, initCalled,
                   ret, i2sClk>>

\* ------------------------------------------------------------ postToBackend
PtbWifi ==
    /\ pc = "ptb_wifi"
    /\ \E r \in WifiOutcomes :
         /\ wifi' = r
         /\ checked' = checked \cup {"wifi"}
         /\ IF r THEN pc' = "ptb_time" /\ ret' = ret
                 ELSE pc' = "ptb_ret" /\ ret' = FALSE
    /\ code' = 0 /\ posted' = FALSE /\ status' = -1 /\ fellBack' = FALSE /\ toWrite' = 0
    /\ pOff' = 0 /\ asked' = 0
    /\ UNCHANGED <<httpOpen, sockOpen>>
    /\ respBody' = NoBody
    /\ UNCHANGED <<refetched, log, ioVars, sketch, synced, i2sInstalled, flash, camVars,
                   cfgVars, cycVars,
                   bodyVars, parseVars, playVars, i2sClk, msgs>>

PtbTime ==
    /\ pc = "ptb_time"
    /\ \E ok \in TimeSyncOutcomes(synced) :
         /\ synced' = ok
         /\ refetched' = (refetched \/ (synced /\ TimeFetchStarted(synced)))
         /\ checked' = checked \cup {"time"}
         /\ msgs' = IF ok THEN msgs ELSE msgs \cup {"Warning: time not synced"}
    /\ pc' = "ptb_begin"
    /\ UNCHANGED <<log, ioVars, sketch, wifi, i2sInstalled, flash, camVars, cfgVars, reqVars,
                   cycVars,
                   bodyVars, parseVars, playVars, ret, i2sClk>>

\* if (!http.begin(client, BACKEND_URL)) return false
PtbBegin ==
    /\ pc = "ptb_begin"
    /\ \E ok \in BOOLEAN :
         IF ok THEN pc' = "ptb_post" /\ ret' = ret
               ELSE pc' = "ptb_ret" /\ ret' = FALSE
    /\ UNCHANGED <<log, ioVars, devVars, camVars, cfgVars, reqVars, cycVars, bodyVars, parseVars,
                   playVars, i2sClk, msgs>>

\* http.POST, getString, end; the reply on success, else on to the fallback
PtbPost ==
    /\ pc = "ptb_post"
    /\ \E c \in HttpCodes, b \in DescBodies :
         /\ code' = c
         /\ posted' = TRUE
         /\ respBody' = b
         /\ log' = Logged(log, <<"desc_post">>)
         /\ IF PrimaryOk(c)
            THEN /\ result' = ExtractText(b)
                 /\ ret' = TRUE
                 /\ pc' = "ptb_ret"
                 /\ msgs' = msgs
            ELSE /\ msgs' = msgs \cup {"Falling back to direct socket POST..."}
                 /\ pc' = "ptb_connect"
                 /\ UNCHANGED <<result, ret>>
    /\ httpOpen' = HttpEnd(TRUE)
    /\ UNCHANGED <<ioVars, devVars, camVars, cfgVars, status, fellBack, toWrite, pOff, asked,
                   sockOpen, cycles, prompt,
                   b64, ttsSent, initCalled, bodyVars, parseVars, playVars, i2sClk>>

\* direct.connect(host, 443)
PtbConnect ==
    /\ pc = "ptb_connect"
    /\ fellBack' = TRUE
    /\ log' = Logged(log, <<"desc_fallback">>)
    /\ \E ok \in BOOLEAN :
         /\ sockOpen' = ok
         /\ IF ok THEN pc' = "ptb_header" /\ UNCHANGED <<result, ret>>
               ELSE pc' = "ptb_ret" /\ ret' = FALSE /\ result' = "Direct connect failed"
    /\ UNCHANGED <<ioVars, devVars, camVars, cfgVars, code, posted, status, toWrite, pOff,
                   asked, httpOpen, respBody, cycles,
                   prompt, b64, ttsSent, initCalled, bodyVars, parseVars, playVars,
                   i2sClk, msgs>>

\* direct.print(req)
PtbHeader ==
    /\ pc = "ptb_header"
    /\ \E ok \in BOOLEAN :
         IF ok THEN /\ pc' = "ptb_body" /\ toWrite' = PayloadLen /\ pOff' = 0 /\ asked' = 0
                    /\ sockOpen' = sockOpen
                    /\ UNCHANGED <<result, ret>>
               ELSE /\ pc' = "ptb_ret" /\ ret' = FALSE /\ result' = "Header write failed"
                    /\ toWrite' = toWrite /\ pOff' = pOff /\ asked' = asked
                    /\ sockOpen' = DirectStop(sockOpen)
    /\ UNCHANGED <<httpOpen, log, ioVars, devVars, camVars, cfgVars, code, posted, status,
                   fellBack, respBody, cycles,
                   prompt, b64, ttsSent, initCalled, bodyVars, parseVars, playVars,
                   i2sClk, msgs>>

\* one iteration of while (toWrite > 0)
PtbBodyWrite ==
    /\ pc = "ptb_body"
    /\ toWrite > 0
    /\ asked' = WriteSize(toWrite)
    /\ \E n \in SocketAccepts(WriteSize(toWrite)) :
         IF n = 0
         THEN /\ pc' = "ptb_ret" /\ ret' = FALSE /\ result' = "Body write stalled"
              /\ toWrite' = toWrite /\ pOff' = pOff
              /\ sockOpen' = DirectStop(sockOpen)
         ELSE /\ toWrite' = toWrite - n /\ pOff' = pOff + n
              /\ sockOpen' = sockOpen
              /\ UNCHANGED <<pc, result, ret>>
    /\ UNCHANGED <<httpOpen, log, ioVars, devVars, camVars, cfgVars, code, posted, status,
                   fellBack, respBody, cycles,
                   prompt, b64, ttsSent, initCalled, bodyVars, parseVars, playVars,
                   i2sClk, msgs>>

\* status line, rest of the response, direct.stop(), verdict
PtbResponse ==
    /\ pc = "ptb_body"
    /\ toWrite = 0
    /\ \E st \in FallbackStatuses, b \in DescBodies :
         /\ status' = st
         /\ respBody' = b
         /\ IF FallbackOk(st)
            THEN result' = ExtractText(b) /\ ret' = TRUE
            ELSE result' = "HTTP error" /\ ret' = FALSE
    /\ pc' = "ptb_ret"
    /\ sockOpen' = DirectStop(sockOpen)
    /\ UNCHANGED <<log, ioVars, devVars, camVars, cfgVars, code, posted, fellBack, toWrite,
                   pOff, asked, httpOpen, cycles,
                   prompt, b64, ttsSent, initCalled, bodyVars, parseVars, playVars,
                   i2sClk, msgs>>

\* (mutant) a failed description request is sent again
AfterApiError_Again == "ptb_wifi"

\* else { "API error: " ... } and captureAndSend returns
AfterApiError == "cas_ret"

\* captureAndSend: if (postToBackend(...)) ... else "API error"
CasAfterPost ==
    /\ pc = "ptb_ret"
    /\ IF ret THEN msgs' = msgs \cup {"Response"} /\ pc' = "i2s_init"
              ELSE msgs' = msgs \cup {"API error"} /\ pc' = AfterApiError
    /\ UNCHANGED <<log, ioVars, devVars, camVars, cfgVars, reqVars, cycVars, bodyVars, parseVars,
                   playVars, ret, i2sClk>>

\* -------------------------------------------------------------------- initI2S
\* i2s_driver_install / i2s_set_pin may each fail; a driver already installed
\* stays installed (nothing uninstalls it). On a port whose driver is installed,
\* i2s_driver_install either fails (the port is in use) or, in builds that only
\* warn, leaves the driver as it is; i2s_set_pin, given the same pins, then does
\* what it did before.
I2sInitOutcomes(installed, clk) ==
    IF ~installed THEN {"ok", "install_failed", "set_pin_failed"}
    ELSE {"install_failed"} \cup (IF clk = U32(0) THEN {"set_pin_failed"} ELSE {"ok"})

InitI2S ==
    /\ pc = "i2s_init"
    /\ initCalled' = TRUE
    /\ \E o \in I2sInitOutcomes(i2sInstalled, i2sClk) :
         /\ i2sInstalled' = (i2sInstalled \/ o # "install_failed")
         /\ IF o = "ok"
            THEN /\ i2sClk' = I2sSetClk(TRUE, i2sClk, g_sampleRate)
                 /\ pc' = "spk_wifi"
                 /\ msgs' = msgs
            ELSE /\ i2sClk' = i2sClk
                 /\ pc' = "cas_ret"
                 /\ msgs' = msgs \cup {"I2S init failed (MAX98357A)"}
    /\ UNCHANGED <<refetched, log, ioVars, sketch, wifi, synced, flash, checked, camVars,
                   cfgVars, reqVars, cycles, prompt,
                   b64, result, ttsSent, bodyVars, parseVars, playVars, ret>>

\* ------------------------------------------------------ speakText: the request
SpkWifi ==
    /\ pc = "spk_wifi"
    /\ \E r \in WifiOutcomes :
         /\ wifi' = r
         /\ checked' = checked \cup {"wifi"}
         /\ IF r THEN pc' = "spk_time" /\ ret' = ret
                 ELSE pc' = "spk_ret" /\ ret' = FALSE
    /\ code' = 0 /\ posted' = FALSE /\ status' = -1 /\ fellBack' = FALSE /\ toWrite' = 0
    /\ pOff' = 0 /\ asked' = 0
    /\ UNCHANGED <<httpOpen, sockOpen>>
    /\ respBody' = NoBody
    /\ UNCHANGED <<refetched, log, ioVars, sketch, synced, i2sInstalled, flash, camVars,
                   cfgVars, cycVars,
                   bodyVars, parseVars, playVars, i2sClk, msgs>>

SpkTime ==
    /\ pc = "spk_time"
    /\ \E ok \in TimeSyncOutcomes(synced) :
         /\ synced' = ok
         /\ refetched' = (refetched \/ (synced /\ TimeFetchStarted(synced)))
         /\ checked' = checked \cup {"time"}
         /\ msgs' = IF ok THEN msgs ELSE msgs \cup {"Warning: time not synced"}
    /\ pc' = "spk_begin"
    /\ UNCHANGED <<log, ioVars, sketch, wifi, i2sInstalled, flash, camVars, cfgVars, reqVars,
                   cycVars,
                   bodyVars, parseVars, playVars, ret, i2sClk>>

SpkBegin ==
    /\ pc = "spk_begin"
    /\ \E ok \in BOOLEAN :
         IF ok THEN pc' = "spk_post" /\ ret' = ret
               ELSE pc' = "spk_ret" /\ ret' = FALSE
    /\ UNCHANGED <<log, ioVars, devVars, camVars, cfgVars, reqVars, cycVars, bodyVars, parseVars,
                   playVars, i2sClk, msgs>>

\* speech bodies the pipeline receives
StdWav(ch, rate) ==
    RiffHeader(ID_RIFF, ID_WAVE) \o Chunk(ID_FMT, U32(16), FmtBody(1, ch, rate, 16))
        \o Chunk(ID_DATA, U32(4), Samples)

TtsBodies ==
    { StdWav(1, 16000),
      StdWav(2, 8000),
      StdWav(1, 16000) \o Zeros(8),
      RiffHeader(ID_RIFF, ID_WAVE) \o Chunk(ID_DATA, U32(4), Samples)
          \o Chunk(ID_FMT, U32(16), FmtBody(1, 1, 8000, 16)),
      RiffHeader(ID_RIFF, ID_WAVE) \o Chunk(ID_FMT, U32(16), FmtBody(3, 1, 16000, 16))
          \o Chunk(ID_DATA, U32(4), Samples),
      RiffHeader(ID_RIFF, ID_WAVE) \o Chunk(ID_DATA, U32(4), Samples),
      RiffHeader(ID_RIFF, ID_WAVE) \o Chunk(ID_FMT, U32(16), FmtBody(1, 1, 8000, 16))
          \o Zeros(8),
      Zeros(44) }

\* limit ~350KB
AudioCeiling == 350000

\* (declared Content-Length or -1, bytes the stream delivers)
TtsResponses ==
    { [len |-> Len(b), bytes |-> b] : b \in TtsBodies }
    \cup { [len |-> l, bytes |-> StdWav(1, 16000)] :
             l \in {-1, 0, Len(StdWav(1, 16000)) + 4, AudioCeiling, AudioCeiling + 1} }

\* (mutant) the upper limit is not checked
AudioSizeOk_NoCeiling(cl) == ~(cl <= 0)

\* if (contentLen <= 0 || contentLen > 350000) reject
AudioSizeOk(cl) == ~(cl <= 0 \/ cl > AudioCeiling)

\* bytes one stream->read may deliver of those available
ReadSizes(avail) == {avail} \cup {n \in {20} : n < avail}

\* http.POST; on an error status: getString, end, return false
SpkPost ==
    /\ pc = "spk_post"
    /\ ttsSent' = TRUE
    /\ log' = Logged(log, <<"tts_post">>)
    /\ posted' = TRUE
    /\ \E c \in HttpCodes :
         /\ code' = c
         /\ IF PrimaryOk(c)
            THEN \E r \in TtsResponses :
                   /\ contentLen' = r.len
                   /\ body' = r.bytes
                   /\ pc' = "spk_size"
                   /\ httpOpen' = TRUE
                   /\ UNCHANGED <<ret, msgs>>
            ELSE /\ msgs' = msgs \cup {"TTS HTTP error"}
                 /\ ret' = FALSE
                 /\ pc' = "spk_ret"
                 /\ httpOpen' = HttpEnd(TRUE)
                 /\ UNCHANGED <<contentLen, body>>
    /\ UNCHANGED <<ioVars, devVars, camVars, cfgVars, status, fellBack, toWrite, pOff, asked,
                   sockOpen, respBody, cycles, prompt,
                   b64, result, initCalled, allocated, nread, buf, parseVars, playVars,
                   i2sClk>>

\* the size check and the allocation of the buffer
SpkSize ==
    /\ pc = "spk_size"
    /\ IF ~AudioSizeOk(contentLen)
       THEN /\ msgs' = msgs \cup {"Invalid or too large audio"}
            /\ ret' = FALSE
            /\ pc' = "spk_ret"
            /\ httpOpen' = HttpEnd(httpOpen)
            /\ UNCHANGED <<allocated, nread, buf>>
       ELSE \E ok \in BOOLEAN :
              IF ok
              THEN /\ allocated' = TRUE
                   /\ nread' = 0
                   /\ buf' = <<>>
                   /\ pc' = "spk_read"
                   /\ httpOpen' = httpOpen
                   /\ UNCHANGED <<ret, msgs>>
              ELSE /\ msgs' = msgs \cup {"No RAM for audio"}
                   /\ ret' = FALSE
                   /\ pc' = "spk_ret"
                   /\ httpOpen' = HttpEnd(httpOpen)
                   /\ UNCHANGED <<allocated, nread, buf>>
    /\ UNCHANGED <<log, ioVars, devVars, camVars, cfgVars, code, posted, status, fellBack,
                   toWrite, pOff, asked, sockOpen, respBody, cycVars, contentLen, body,
                   parseVars, playVars, i2sClk>>

\* bytes of the body not yet read that the stream still delivers
Avail == (IF Len(body) < contentLen THEN Len(body) ELSE contentLen) - nread

\* one stream->read that delivers bytes
SpkRead ==
    /\ pc = "spk_read"
    /\ nread < contentLen
    /\ Avail > 0
    /\ \E n \in ReadSizes(Avail) :
         /\ buf' = buf \o SubSeq(body, nread + 1, nread + n)
         /\ nread' = nread + n
    /\ UNCHANGED <<log, ioVars, devVars, camVars, cfgVars, reqVars, cycVars, contentLen, allocated,
                   body, parseVars, playVars, pc, ret, i2sClk, msgs>>

\* (mutant) a short read is taken as it is
ReadComplete_AnyLength(read, cl) == read <= cl

\* if (read != contentLen) "Audio read incomplete"
ReadComplete(read, cl) == read = cl

\* the read loop ends (all bytes read, or 30 s without data): http.end()
SpkReadEnd ==
    /\ pc = "spk_read"
    /\ (nread >= contentLen \/ Avail = 0)
    /\ httpOpen' = HttpEnd(httpOpen)
    /\ IF ~ReadComplete(nread, contentLen)
       THEN /\ msgs' = msgs \cup {"Audio read incomplete"}
            /\ ret' = FALSE
            /\ pc' = "spk_ret"
       ELSE /\ pc' = "spk_parse"
            /\ UNCHANGED <<ret, msgs>>
    /\ UNCHANGED <<log, ioVars, devVars, camVars, cfgVars, code, posted, status, fellBack,
                   toWrite, pOff, asked, sockOpen, respBody, cycVars, bodyVars, parseVars,
                   playVars, i2sClk>>

\* captureAndSend: if (!speakText(result)) "TTS playback failed"
CasAfterSpeak ==
    /\ pc = "spk_ret"
    /\ msgs' = IF ret THEN msgs ELSE msgs \cup {"TTS playback failed"}
    /\ pc' = "cas_ret"
    /\ UNCHANGED <<log, ioVars, devVars, camVars, cfgVars, reqVars, cycVars, bodyVars, parseVars,
                   playVars, ret, i2sClk>>

\* ---------------------------------------------------- speakText: parse + play
\* parseWavHeader, lines before the loop
WavEnter ==
    /\ pc = "spk_parse"
    /\ IF WavMagicOk(buf)
       THEN /\ pos' = U32(12)
            /\ pc' = "wav_loop"
            /\ parseRes' = "none"
            /\ iters' = 0
       ELSE /\ pos' = pos
            /\ pc' = "spk_parsed"
            /\ parseRes' = "fail"
            /\ iters' = iters
    /\ UNCHANGED <<log, ioVars, devVars, camVars, cfgVars, reqVars, cycVars, bodyVars, playVars,
                   sz, dataOffset, fmtSeen, oob, ret, i2sClk, msgs>>

\* one iteration of while (pos + 8 <= len)
WavIter ==
    /\ pc = "wav_loop"
    /\ WavLoopGuard(nread, pos)
    /\ iters' = IF iters < MaxIters THEN iters + 1 ELSE iters
    /\ \E id \in SeenId(buf, pos), s \in SeenU32(buf, pos, 4) :
         LET p    == Add32(pos, U32(8))
             hdr  == InBuf(nread, pos, 0, 8)
             \* the format fields are read once the bounds check has passed
             rd   == id = ID_FMT /\ ~Gt32(Add32(p, s), nread)
         IN  \E fmt  \in (IF rd THEN SeenU16(buf, p, 0) ELSE {0}),
                ch   \in (IF rd THEN SeenU16(buf, p, 2) ELSE {0}),
                rate \in (IF rd THEN SeenU32(buf, p, 4) ELSE {U32(0)}),
                bits \in (IF rd THEN SeenU16(buf, p, 14) ELSE {0}) :
               LET r == WavStep(nread, pos, id, s, fmt, ch, rate, bits)
               IN  /\ pos' = r.pos
                   /\ sz' = s
                   /\ oob' = (oob \/ ~hdr \/ (rd /\ ~InBuf(nread, p, 0, 16)))
                   /\ fmtSeen' = (fmtSeen \/ r.cfg)
                   /\ g_sampleRate' = IF r.cfg THEN rate ELSE g_sampleRate
                   /\ g_channels' = IF r.cfg THEN ch % 256 ELSE g_channels
                   /\ dataOffset' = IF r.res = "ok" THEN r.pos ELSE dataOffset
                   /\ parseRes' = IF r.res = "next" THEN parseRes ELSE r.res
                   /\ pc' = IF r.res = "next" THEN "wav_loop" ELSE "spk_parsed"
    /\ UNCHANGED <<log, ioVars, devVars, camVars, reqVars, cycVars, bodyVars, playVars,
                   ret, i2sClk, msgs>>

\* the loop ends without a data chunk: return false
WavExit ==
    /\ pc = "wav_loop"
    /\ ~WavLoopGuard(nread, pos)
    /\ parseRes' = "fail"
    /\ pc' = "spk_parsed"
    /\ UNCHANGED <<log, ioVars, devVars, camVars, cfgVars, reqVars, cycVars, bodyVars, playVars,
                   pos, sz, dataOffset, fmtSeen, oob, iters, ret, i2sClk, msgs>>

\* (mutant) playback goes ahead whatever the parser returned
ParseAccepted_Always(res) == res \in {"ok", "fail"}

\* if (!parseWavHeader(buf.get(), read, dataOffset)) "WAV parse failed"
ParseAccepted(res) == res = "ok"

\* speakText after parseWavHeader returned
SpkParsed ==
    /\ pc = "spk_parsed"
    /\ IF ~ParseAccepted(parseRes)
       THEN /\ msgs' = msgs \cup {"WAV parse failed"}
            /\ ret' = FALSE
            /\ pc' = "spk_ret"
            /\ UNCHANGED <<i2sClk, playVars>>
       ELSE /\ i2sClk' = I2sSetClk(i2sInstalled, i2sClk, g_sampleRate)
            /\ pcmLen' = PcmLen(nread, dataOffset)
            /\ zeroed' = zeroed + 1
            /\ written' = 0
            /\ played' = <<>>
            /\ i2sCalls' = 0
            /\ pc' = "spk_play"
            /\ UNCHANGED <<ret, msgs>>
    /\ UNCHANGED <<log, ioVars, devVars, camVars, cfgVars, reqVars, cycVars, bodyVars, parseVars>>

\* (mutant) the rest of the range is handed to one i2s_write
PlayToWrite_Whole(len, done) == len - done

\* size of the next i2s_write
PlayToWrite(len, done) == IF len - done > 1024 THEN 1024 ELSE len - done

\* bytes the peripheral may accept of a write of n: all, some, none (error)
I2sAccepts(n) == {n, n \div 2, 0}

\* one iteration of while (written < len) in i2sPlayPCM16
PlayChunk ==
    /\ pc = "spk_play"
    /\ written < pcmLen
    /\ \E out \in I2sAccepts(PlayToWrite(pcmLen, written)) :
         /\ played' = played \o SubSeq(buf, dataOffset[2] + written + 1,
                                            dataOffset[2] + written + out)
         /\ written' = written + out
         /\ i2sCalls' = (i2sCalls + 1) % 2
    /\ UNCHANGED <<log, ioVars, devVars, camVars, cfgVars, reqVars, cycVars, bodyVars, parseVars,
                   pcmLen, zeroed, pc, ret, i2sClk, msgs>>

\* the play loop is over: zero the DMA buffer, return true
PlayEnd ==
    /\ pc = "spk_play"
    /\ ~(written < pcmLen)
    /\ zeroed' = zeroed + 1
    /\ ret' = TRUE
    /\ pc' = "spk_ret"
    /\ UNCHANGED <<log, ioVars, devVars, camVars, cfgVars, reqVars, cycVars, bodyVars, parseVars,
                   pcmLen, written, played, i2sCalls, i2sClk, msgs>>

\* ------------------------------------------- specification of the audio path
\* speakText from the point where a complete body has been read into buf, in a
\* session whose configuration is the default or was left by an earlier cycle.
SessionRates == {U32(16000), U32(8000)}

\* a speech body whose samples need more than one i2s_write
LongPcmLen == 1500
LongWav ==
    RiffHeader(ID_RIFF, ID_WAVE) \o Chunk(ID_FMT, U32(16), FmtBody(1, 1, 16000, 16))
        \o Chunk(ID_DATA, U32(LongPcmLen), [i \in 1..LongPcmLen |-> i % 256])

InitWav ==
    /\ sketch = "glasses" /\ pc = "spk_parse" /\ cycles = 1
    /\ wifi = TRUE /\ synced = TRUE
    /\ g_sampleRate \in SessionRates /\ g_channels = 1
    /\ i2sInstalled = TRUE /\ i2sClk = g_sampleRate
    /\ flash = FALSE /\ checked = {} /\ refetched = FALSE
    /\ fb = "returned" /\ fbOut = 0 /\ fbBad = FALSE
    /\ prompt = "describe" /\ b64 = "img" /\ result = "reply" /\ ret = TRUE
    /\ code = 200 /\ posted = TRUE /\ status = -1 /\ fellBack = FALSE /\ toWrite = 0
    /\ pOff = 0 /\ asked = 0
    /\ httpOpen = FALSE /\ sockOpen = FALSE
    /\ respBody = NoBody
    /\ ttsSent = TRUE /\ initCalled = TRUE
    /\ body \in WavBuffers(MaxChunks) \cup {LongWav}
    /\ buf = body /\ nread = Len(body) /\ contentLen = Len(body) /\ allocated = TRUE
    /\ pos = U32(0) /\ sz = U32(0) /\ dataOffset = U32(0)
    /\ fmtSeen = FALSE /\ oob = FALSE /\ parseRes = "none" /\ iters = 0
    /\ pcmLen = 0 /\ written = 0 /\ played = <<>> /\ zeroed = 0 /\ i2sCalls = 0
    /\ msgs = {}
    /\ line = <<>> /\ log = <<>>
    /\ text = <<>> /\ escaped = <<>>
    /\ respIn = <<>> /\ respAt = 1 /\ headerDone = FALSE /\ respAcc = <<>>
    /\ upParts = 0 /\ upFile = <<>> /\ fileBuffer = 0 /\ apiKey = TRUE /\ fin = "no" /\ resCalls = 0

NextWav == WavEnter \/ WavIter \/ WavExit \/ SpkParsed \/ PlayChunk \/ PlayEnd

SpecWav == InitWav /\ [][NextWav]_vars

\* ------------------------------------------------------------- jsonEscape
\* what jsonEscape appends for one character
EscapeChar(c) ==
    IF c = 92 \/ c = 34 THEN <<92, c>>
    ELSE IF c = 10 THEN <<92, 110>>
    ELSE IF c = 13 THEN <<92, 114>>
    ELSE IF c = 9 THEN <<92, 116>>
    ELSE <<c>>

\* for (i = 0; i < s.length(); ++i) ...
RECURSIVE jsonEscape(_)
jsonEscape(s) == IF s = <<>> THEN <<>> ELSE EscapeChar(Head(s)) \o jsonEscape(Tail(s))

\* characters of the strings handed to jsonEscape: quote, backslash, newline,
\* carriage return, tab, backspace, escape, and the letters a and n
TextChars == {34, 92, 10, 13, 9, 8, 27, 97, 110}

MaxText == 3

Texts == UNION { [1..n -> TextChars] : n \in 0..MaxText }

\* the state of a device that has booted and waits, nothing received yet
Booted ==
    /\ sketch = "glasses" /\ cycles = 0
    /\ wifi = TRUE /\ synced = FALSE
    /\ g_sampleRate = U32(16000) /\ g_channels = 1
    /\ i2sInstalled = FALSE /\ i2sClk = U32(0)
    /\ flash = FALSE /\ checked = {} /\ refetched = FALSE
    /\ fb = "null" /\ fbOut = 0 /\ fbBad = FALSE
    /\ prompt = "" /\ b64 = "" /\ result = "" /\ ret = FALSE
    /\ code = 0 /\ posted = FALSE /\ status = -1 /\ fellBack = FALSE /\ toWrite = 0
    /\ pOff = 0 /\ asked = 0
    /\ httpOpen = FALSE /\ sockOpen = FALSE
    /\ respBody = NoBody
    /\ ttsSent = FALSE /\ initCalled = FALSE
    /\ contentLen = 0 /\ allocated = FALSE /\ nread = 0 /\ body = <<>> /\ buf = <<>>
    /\ pos = U32(0) /\ sz = U32(0) /\ dataOffset = U32(0)
    /\ fmtSeen = FALSE /\ oob = FALSE /\ parseRes = "none" /\ iters = 0
    /\ pcmLen = 0 /\ written = 0 /\ played = <<>> /\ zeroed = 0 /\ i2sCalls = 0
    /\ msgs = {}
    /\ line = <<>> /\ log = <<>>

\* a call of jsonEscape
Escape ==
    /\ pc = "esc"
    /\ escaped' = jsonEscape(text)
    /\ pc' = "esc_ret"
    /\ UNCHANGED <<log, line, text, accVars, upVars, devVars, camVars, cfgVars, reqVars, cycVars,
                   bodyVars, parseVars, playVars, ret, i2sClk, msgs>>

InitEsc ==
    /\ Booted /\ pc = "esc" /\ text \in Texts /\ escaped = <<>>
    /\ respIn = <<>> /\ respAt = 1 /\ headerDone = FALSE /\ respAcc = <<>>
    /\ upParts = 0 /\ upFile = <<>> /\ fileBuffer = 0 /\ apiKey = TRUE /\ fin = "no" /\ resCalls = 0

NextEsc == Escape

SpecEsc == InitEsc /\ [][NextEsc]_vars

\* ------------------------------------- postToBackend: "Capture rest (limited)"
\* A line is what readStringUntil('\n') returns: n copies of the character c,
\* the terminating newline dropped.  A string is a sequence of such runs.
RespCeiling == 4096

RECURSIVE RunsLen(_)
RunsLen(r) == IF r = <<>> THEN 0 ELSE r[1].n + RunsLen(Tail(r))

\* the header lines every response starts with: one header, then "\r"
HeaderLines == << [c |-> 72, n |-> 20], [c |-> 13, n |-> 1] >>

\* lengths of the body lines tried
LineLens == {10, 2000, 2095, 2096, 4095, 4096}
MaxLines == 3

\* the body lines: line i is made of the i-th letter
BodyLines ==
    UNION { { [i \in 1..k |-> [c |-> 96 + i, n |-> f[i]]] : f \in [1..k -> LineLens] }
            : k \in 1..MaxLines }

Responses == { HeaderLines \o b : b \in BodyLines }

\* chunk == "\r" || chunk == "\n" || chunk == "\r\n"; the last two cannot be
\* returned by readStringUntil('\n')
IsBlankLine(l) == l.c = 13 /\ l.n = 1

\* if (respBody.length() + chunk.length() < 4096) respBody += chunk;
Accumulate(acc, l) ==
    IF RunsLen(acc) + l.n < RespCeiling THEN Append(acc, l) ELSE acc

\* one iteration of while (direct.available())
RespLine ==
    /\ pc = "resp"
    /\ respAt <= Len(respIn)
    /\ LET chunk == respIn[respAt]
       IN  IF ~headerDone
           THEN /\ headerDone' = IsBlankLine(chunk)
                /\ respAcc' = respAcc
           ELSE /\ respAcc' = Accumulate(respAcc, chunk)
                /\ headerDone' = headerDone
    /\ respAt' = respAt + 1
    /\ UNCHANGED <<log, line, text, escaped, respIn, upVars, devVars, camVars, cfgVars, reqVars,
                   cycVars, bodyVars, parseVars, playVars, pc, ret, i2sClk, msgs>>

\* the peer has closed and nothing is left to read: direct.stop()
RespEnd ==
    /\ pc = "resp"
    /\ respAt > Len(respIn)
    /\ pc' = "resp_ret"
    /\ UNCHANGED <<log, ioVars, devVars, camVars, cfgVars, reqVars, cycVars, bodyVars,
                   parseVars, playVars, ret, i2sClk, msgs>>

InitResp ==
    /\ Booted /\ pc = "resp" /\ text = <<>> /\ escaped = <<>>
    /\ respIn \in Responses /\ respAt = 1 /\ headerDone = FALSE /\ respAcc = <<>>
    /\ upParts = 0 /\ upFile = <<>> /\ fileBuffer = 0 /\ apiKey = TRUE /\ fin = "no" /\ resCalls = 0

NextResp == RespLine \/ RespEnd

SpecResp == InitResp /\ [][NextResp]_vars

\* --------------------------------------- backend: app.post('/api/vision/upload')
\* One request.  A file part is "reading" from its 'file' event, "resolved" or
\* "rejected" once streamToBuffer's promise is settled, "done" once the
\* reaction (.then or .catch) has run.
MaxParts == 2

\* everything of the device, which is idle while the backend serves a request
restVars == <<log, line, text, escaped, accVars, devVars, camVars, cfgVars, reqVars, cycVars,
              bodyVars, parseVars, playVars, pc, ret, i2sClk, msgs>>

\* res.json / res.status(..).json called from a promise reaction or a catch
\* block: the call is made, whatever was sent before
JsonCall(calls) == calls + 1

\* the same call inside the try block of the 'finish' handler: when a response
\* was already sent it throws, and the catch block calls res.status(500).json
JsonCallInTry(calls) == IF calls = 0 THEN 1 ELSE JsonCall(JsonCall(calls))

SetAt(s, i, v) == [s EXCEPT ![i] = v]

\* bb.on('file'): streamToBuffer(file) starts collecting
UpFile ==
    /\ pc = "upload" /\ fin = "no"
    /\ Len(upFile) < upParts
    /\ \A i \in 1..Len(upFile) : upFile[i] # "reading"
    /\ upFile' = Append(upFile, "reading")
    /\ UNCHANGED <<restVars, upParts, fileBuffer, apiKey, fin, resCalls>>

\* stream.on('end', ...) resolves, stream.on('error', reject) rejects
UpStreamSettled ==
    /\ pc = "upload"
    /\ \E i \in 1..Len(upFile) :
         /\ upFile[i] = "reading"
         /\ \E o \in {"resolved", "rejected"} : upFile' = SetAt(upFile, i, o)
    /\ UNCHANGED <<restVars, upParts, fileBuffer, apiKey, fin, resCalls>>

\* .then((buf) => { fileBuffer = buf; })
UpThen ==
    /\ pc = "upload"
    /\ \E i \in 1..Len(upFile) :
         /\ upFile[i] = "resolved"
         /\ upFile' = SetAt(upFile, i, "done")
         /\ fileBuffer' = i
    /\ UNCHANGED <<restVars, upParts, apiKey, fin, resCalls>>

\* .catch((err) => { res.status(400).json({ error: 'Failed to read file' }) })
UpCatch ==
    /\ pc = "upload"
    /\ \E i \in 1..Len(upFile) :
         /\ upFile[i] = "rejected"
         /\ upFile' = SetAt(upFile, i, "done")
    /\ resCalls' = JsonCall(resCalls)
    /\ UNCHANGED <<restVars, upParts, fileBuffer, apiKey, fin>>

\* bb.on('finish'): every part has been parsed and its stream is over; the
\* handler runs up to its await
UpFinish ==
    /\ pc = "upload" /\ fin = "no"
    /\ Len(upFile) = upParts
    /\ \A i \in 1..Len(upFile) : upFile[i] # "reading"
    /\ IF fileBuffer = 0
       THEN resCalls' = JsonCallInTry(resCalls) /\ fin' = "done"
       ELSE IF ~apiKey
       THEN resCalls' = JsonCall(resCalls) /\ fin' = "done"
       ELSE resCalls' = resCalls /\ fin' = "await"
    /\ UNCHANGED <<restVars, upParts, upFile, fileBuffer, apiKey>>

\* the completion arrives (res.json({ text })) or the upstream call fails
\* (catch: res.status(500).json)
UpCompletion ==
    /\ pc = "upload" /\ fin = "await"
    /\ \E ok \in BOOLEAN :
         resCalls' = IF ok THEN JsonCallInTry(resCalls) ELSE JsonCall(resCalls)
    /\ fin' = "done"
    /\ UNCHANGED <<restVars, upParts, upFile, fileBuffer, apiKey>>

InitUp ==
    /\ Booted /\ pc = "upload" /\ text = <<>> /\ escaped = <<>>
    /\ respIn = <<>> /\ respAt = 1 /\ headerDone = FALSE /\ respAcc = <<>>
    /\ upParts \in 0..MaxParts /\ upFile = <<>> /\ fileBuffer = 0
    /\ apiKey \in BOOLEAN /\ fin = "no" /\ resCalls = 0

NextUp == UpFile \/ UpStreamSettled \/ UpThen \/ UpCatch \/ UpFinish \/ UpCompletion

SpecUp == InitUp /\ [][NextUp]_vars

\* ------------------------------------------------- raw-JPEG sketch: loop()
\* bytes of the captured JPEG
JpegLen == 3000

RawWifi ==
    /\ sketch = "rawcam" /\ pc = "raw_loop"
    /\ \E r \in WifiOutcomes :
         /\ wifi' = r
         /\ checked' = checked \cup {"wifi"}
         /\ pc' = IF r THEN "raw_time" ELSE "raw_loop"
    /\ UNCHANGED <<refetched, log, ioVars, sketch, synced, i2sInstalled, flash, camVars,
                   cfgVars, reqVars, cycVars,
                   bodyVars, parseVars, playVars, ret, i2sClk, msgs>>

RawTime ==
    /\ pc = "raw_time"
    /\ \E ok \in TimeSyncOutcomes(synced) :
         /\ synced' = ok
         /\ refetched' = (refetched \/ (synced /\ TimeFetchStarted(synced)))
         /\ checked' = checked \cup {"time"}
         /\ pc' = IF ok THEN "raw_shot" ELSE "raw_loop"
    /\ UNCHANGED <<log, ioVars, sketch, wifi, i2sInstalled, flash, camVars, cfgVars, reqVars,
                   cycVars,
                   bodyVars, parseVars, playVars, ret, i2sClk, msgs>>

\* if (millis() - lastShot >= CAPTURE_INTERVAL_MS): capture
RawShot ==
    /\ pc = "raw_shot"
    /\ \E due \in BOOLEAN, ok \in BOOLEAN :
         IF ~due
         THEN /\ pc' = "raw_loop"
              /\ UNCHANGED <<camVars, cycles, msgs>>
         ELSE /\ cycles < MaxCycles
              /\ cycles' = cycles + 1
              /\ IF ok
                 THEN LET c == CamGet(fb, fbOut, fbBad)
                      IN  /\ fb' = c.fb /\ fbOut' = c.out /\ fbBad' = c.bad
                          /\ pc' = "raw_begin"
                          /\ msgs' = {}
                 ELSE /\ fb' = "null"
                      /\ msgs' = {"Capture failed"}
                      /\ pc' = "raw_loop"
                      /\ UNCHANGED <<fbOut, fbBad>>
    /\ UNCHANGED <<log, ioVars, devVars, cfgVars, reqVars, prompt, b64, result, ttsSent, initCalled,
                   bodyVars, parseVars, playVars, ret, i2sClk>>

\* ------------------------------------------------ raw-JPEG sketch: postRawJpeg
\* if (!https.begin(client, url)) return false
RawBegin ==
    /\ pc = "raw_begin"
    /\ code' = 0 /\ posted' = FALSE /\ status' = -1 /\ fellBack' = FALSE /\ toWrite' = 0
    /\ pOff' = 0 /\ asked' = 0
    /\ UNCHANGED <<httpOpen, sockOpen>>
    /\ respBody' = NoBody
    /\ \E ok \in BOOLEAN :
         IF ok THEN pc' = "raw_post" /\ ret' = ret /\ msgs' = msgs
               ELSE pc' = "raw_ret" /\ ret' = FALSE
                    /\ msgs' = msgs \cup {"HTTPS begin failed"}
    /\ UNCHANGED <<log, ioVars, devVars, camVars, cfgVars, cycVars, bodyVars, parseVars, playVars,
                   i2sClk>>

\* https.POST(fb->buf, fb->len), getString, end
RawPost ==
    /\ pc = "raw_post"
    /\ LET c == CamUse(fb, fbOut, fbBad)
       IN  fb' = c.fb /\ fbOut' = c.out /\ fbBad' = c.bad
    /\ posted' = TRUE
    /\ \E c \in HttpCodes :
         /\ code' = c
         /\ IF PrimaryOk(c)
            THEN /\ ret' = TRUE /\ pc' = "raw_ret" /\ msgs' = msgs
            ELSE /\ msgs' = msgs \cup {"Falling back to direct socket POST..."}
                 /\ pc' = "raw_connect"
                 /\ ret' = ret
    /\ httpOpen' = HttpEnd(TRUE)
    /\ UNCHANGED <<log, ioVars, devVars, cfgVars, status, fellBack, toWrite, pOff, asked,
                   sockOpen, respBody, cycVars, bodyVars,
                   parseVars, playVars, i2sClk>>

RawConnect ==
    /\ pc = "raw_connect"
    /\ fellBack' = TRUE
    /\ \E ok \in BOOLEAN :
         /\ sockOpen' = ok
         /\ IF ok THEN pc' = "raw_header" /\ UNCHANGED <<ret, msgs>>
               ELSE pc' = "raw_ret" /\ ret' = FALSE
                    /\ msgs' = msgs \cup {"Direct connect failed"}
    /\ UNCHANGED <<log, ioVars, devVars, camVars, cfgVars, code, posted, status, toWrite, pOff,
                   asked, httpOpen, respBody, cycVars,
                   bodyVars, parseVars, playVars, i2sClk>>

RawHeader ==
    /\ pc = "raw_header"
    /\ LET c == CamUse(fb, fbOut, fbBad)
       IN  fb' = c.fb /\ fbOut' = c.out /\ fbBad' = c.bad
    /\ \E ok \in BOOLEAN :
         IF ok THEN /\ pc' = "raw_body" /\ toWrite' = JpegLen /\ pOff' = 0 /\ asked' = 0
                    /\ sockOpen' = sockOpen
                    /\ UNCHANGED <<ret, msgs>>
               ELSE /\ pc' = "raw_ret" /\ ret' = FALSE
                    /\ msgs' = msgs \cup {"Header write failed"}
                    /\ toWrite' = toWrite /\ pOff' = pOff /\ asked' = asked
                    /\ sockOpen' = DirectStop(sockOpen)
    /\ UNCHANGED <<httpOpen, log, ioVars, devVars, cfgVars, code, posted, status, fellBack,
                   respBody, cycVars, bodyVars,
                   parseVars, playVars, i2sClk>>

RawBodyWrite ==
    /\ pc = "raw_body"
    /\ toWrite > 0
    /\ LET c == CamUse(fb, fbOut, fbBad)
       IN  fb' = c.fb /\ fbOut' = c.out /\ fbBad' = c.bad
    /\ asked' = WriteSize(toWrite)
    /\ \E n \in SocketAccepts(WriteSize(toWrite)) :
         IF n = 0
         THEN /\ pc' = "raw_ret" /\ ret' = FALSE
              /\ msgs' = msgs \cup {"Body write stalled"}
              /\ toWrite' = toWrite /\ pOff' = pOff
              /\ sockOpen' = DirectStop(sockOpen)
         ELSE /\ toWrite' = toWrite - n /\ pOff' = pOff + n
              /\ sockOpen' = sockOpen
              /\ UNCHANGED <<pc, ret, msgs>>
    /\ UNCHANGED <<httpOpen, log, ioVars, devVars, cfgVars, code, posted, status, fellBack,
                   respBody, cycVars, bodyVars,
                   parseVars, playVars, i2sClk>>

\* status line, rest of the response, direct.stop(), verdict
RawResponse ==
    /\ pc = "raw_body"
    /\ toWrite = 0
    /\ \E st \in FallbackStatuses :
         /\ status' = st
         /\ ret' = FallbackOk(st)
    /\ pc' = "raw_ret"
    /\ sockOpen' = DirectStop(sockOpen)
    /\ UNCHANGED <<log, ioVars, devVars, camVars, cfgVars, code, posted, fellBack, toWrite,
                   pOff, asked, httpOpen, respBody, cycVars,
                   bodyVars, parseVars, playVars, i2sClk, msgs>>

\* loop(): esp_camera_fb_return(fb), the upload verdict is printed
RawReturn ==
    /\ pc = "raw_ret"
    /\ LET c == ReleaseAfterUpload(fb, fbOut, fbBad)
       IN  fb' = c.fb /\ fbOut' = c.out /\ fbBad' = c.bad
    /\ msgs' = {IF ret THEN "Upload ok" ELSE "Upload failed"}
    /\ pc' = "raw_loop"
    /\ code' = 0 /\ posted' = FALSE /\ status' = -1 /\ fellBack' = FALSE /\ toWrite' = 0
    /\ pOff' = 0 /\ asked' = 0
    /\ UNCHANGED <<httpOpen, sockOpen>>
    /\ respBody' = NoBody
    /\ ret' = FALSE
    /\ UNCHANGED <<log, ioVars, devVars, cfgVars, cycVars, bodyVars, parseVars, playVars, i2sClk>>

\* ------------------------------------------------------------ specification
\* The state after setup(): the light is off, the camera is initialised, Wi-Fi
\* is up or not; the raw sketch has also tried to synchronise the clock.
Init ==
    /\ sketch \in {"glasses", "rawcam"}
    /\ pc = IF sketch = "glasses" THEN "idle" ELSE "raw_loop"
    /\ cycles = 0
    /\ wifi \in BOOLEAN
    /\ synced \in (IF sketch = "glasses" THEN {FALSE} ELSE BOOLEAN)
    /\ g_sampleRate = U32(16000) /\ g_channels = 1
    /\ i2sInstalled = FALSE /\ i2sClk = U32(0)
    /\ flash = FALSE /\ checked = {} /\ refetched = FALSE
    /\ fb = "null" /\ fbOut = 0 /\ fbBad = FALSE
    /\ prompt = "" /\ b64 = "" /\ result = "" /\ ret = FALSE
    /\ code = 0 /\ posted = FALSE /\ status = -1 /\ fellBack = FALSE /\ toWrite = 0
    /\ pOff = 0 /\ asked = 0
    /\ httpOpen = FALSE /\ sockOpen = FALSE
    /\ respBody = NoBody
    /\ ttsSent = FALSE /\ initCalled = FALSE
    /\ contentLen = 0 /\ allocated = FALSE /\ nread = 0 /\ body = <<>> /\ buf = <<>>
    /\ pos = U32(0) /\ sz = U32(0) /\ dataOffset = U32(0)
    /\ fmtSeen = FALSE /\ oob = FALSE /\ parseRes = "none" /\ iters = 0
    /\ pcmLen = 0 /\ written = 0 /\ played = <<>> /\ zeroed = 0 /\ i2sCalls = 0
    /\ msgs = {}
    /\ line = <<>> /\ log = <<>>
    /\ text = <<>> /\ escaped = <<>>
    /\ respIn = <<>> /\ respAt = 1 /\ headerDone = FALSE /\ respAcc = <<>>
    /\ upParts = 0 /\ upFile = <<>> /\ fileBuffer = 0 /\ apiKey = TRUE /\ fin = "no" /\ resCalls = 0

Next ==
    \/ Command \/ LoopReady
    \/ CasLightOn \/ CasGetFirst \/ CasDiscard \/ CasGetSecond \/ CasEncode
    \/ PtbWifi \/ PtbTime \/ PtbBegin \/ PtbPost
    \/ PtbConnect \/ PtbHeader \/ PtbBodyWrite \/ PtbResponse
    \/ CasAfterPost \/ InitI2S
    \/ SpkWifi \/ SpkTime \/ SpkBegin \/ SpkPost \/ SpkSize \/ SpkRead \/ SpkReadEnd
    \/ WavEnter \/ WavIter \/ WavExit \/ SpkParsed \/ PlayChunk \/ PlayEnd
    \/ CasAfterSpeak
    \/ RawWifi \/ RawTime \/ RawShot \/ RawBegin \/ RawPost
    \/ RawConnect \/ RawHeader \/ RawBodyWrite \/ RawResponse \/ RawReturn

Spec == Init /\ [][Next]_vars

\* loop() runs again and again and every call returns: the single thread of
\* control takes a step whenever one is possible.
SpecLive == Init /\ [][Next]_vars /\ WF_vars(Next)

\* =================================================================== claims
\* ------------------------------------------ the container as the spec reads it
\* The chunk walk in unbounded arithmetic from offset p: TRUE when it ends in a
\* failure (a declared length reaching past the buffer end, a format sub-chunk
\* that is unreadable or not PCM/16-bit, or no data sub-chunk).
RECURSIVE WalkFails(_, _)
WalkFails(data, p) ==
    IF p + 8 > Len(data) THEN TRUE
    ELSE LET id == RdId(data, p)
             s  == RdU32(data, p + 4)
             q  == p + 8
         IN  IF s[1] > 0 \/ q + s[2] > Len(data) THEN TRUE
             ELSE IF id = ID_FMT THEN
                      \/ q + 16 > Len(data)
                      \/ RdU16(data, q) # 1
                      \/ RdU16(data, q + 14) # 16
                      \/ WalkFails(data, q + s[2])
             ELSE IF id = ID_DATA THEN FALSE
             ELSE WalkFails(data, q + s[2])

ClaimedFailure(data) == ~WavMagicOk(data) \/ WalkFails(data, 12)

\* The sample rates the format sub-chunks of the container declare, walking all
\* of its chunks in unbounded arithmetic.
RECURSIVE FmtRates(_, _)
FmtRates(data, p) ==
    IF p + 8 > Len(data) THEN {}
    ELSE LET id == RdId(data, p)
             s  == RdU32(data, p + 4)
             q  == p + 8
         IN  IF s[1] > 0 \/ q + s[2] > Len(data) THEN {}
             ELSE (IF id = ID_FMT /\ q + 16 <= Len(data) THEN {RdU32(data, q + 4)} ELSE {})
                  \cup FmtRates(data, q + s[2])

\* C1: parseWavHeader fails if and only if the buffer is shorter than 44 bytes,
\* a magic marker mismatches, a format sub-chunk is not PCM/16-bit, a declared
\* sub-chunk length reaches past the buffer end, or no data sub-chunk is found.
C1_FailsIffMalformed ==
    pc = "spk_parsed" => ((parseRes = "fail") <=> ClaimedFailure(buf))

\* C2: for a well-formed container whose data sub-chunk declares L bytes at
\* offset O, speakText writes exactly the bytes [O, O+L) to the peripheral.
C2_PlaysExactlyDeclared ==
    (pc = "spk_ret" /\ ret /\ fmtSeen /\ ~ClaimedFailure(buf))
        => played = SubSeq(buf, dataOffset[2] + 1, dataOffset[2] + sz[2])

\* C5: a container is played only after a format sub-chunk of it passed the
\* PCM/16-bit check.
C5_PlayedOnlyIfFmtChecked ==
    pc = "spk_play" => fmtSeen

\* C6: parseWavHeader never reads outside [0, len).
C6_NoReadPastEnd ==
    ~oob

\* C7: when parseWavHeader succeeds, data offset + declared data length <= len.
C7_DataWithinBuffer ==
    (pc = "spk_parsed" /\ parseRes = "ok")
        => (sz[1] = 0 /\ dataOffset[1] = 0 /\ dataOffset[2] + sz[2] <= nread)

\* C8: samples of a container are written only while the peripheral is clocked
\* for the rate that container's format sub-chunk declares.
C8_ClockIsContainerRate ==
    (played # <<>> /\ WavMagicOk(buf))
        => \A r \in FmtRates(buf, 12) : i2sClk = r

C4_FrameReturnedExactlyOnce ==
    /\ ~fbBad
    /\ fbOut = (IF fb = "held" THEN 1 ELSE 0)
    /\ pc \in {"idle", "cas_ret", "raw_loop", "raw_time", "raw_shot"} => fbOut = 0

C4_Witness ==
    /\ pc = "cas_ret" /\ "Encode failed" \in msgs /\ fb = "returned" /\ fbOut = 0

\* C9: HTTP 500 on both transports of the description request: postToBackend
\* fails, the cycle reports the error, sends no speech request, does not
\* initialise the audio driver, and is over.
C9_Http500OnBothAborts ==
    (sketch = "glasses" /\ code = 500 /\ status = 500)
        => /\ pc \in {"ptb_ret", "cas_ret"}
           /\ ~ret /\ ~ttsSent /\ ~initCalled
           /\ pc = "cas_ret" => "API error" \in msgs

C9_Witness ==
    /\ pc = "cas_ret" /\ code = 500 /\ status = 500 /\ fellBack /\ "API error" \in msgs

\* C10: a speech response declaring more than 350000 bytes is rejected before
\* any allocation or body read; speakText fails and nothing is played.
C10_OversizeRejectedUnbuffered ==
    contentLen > 350000
        => /\ pc \in {"spk_size", "spk_ret", "cas_ret"}
           /\ ~allocated /\ nread = 0 /\ buf = <<>>
           /\ played = <<>> /\ zeroed = 0
           /\ pc # "spk_size" => (~ret /\ "Invalid or too large audio" \in msgs)

C10_Witness ==
    /\ pc = "cas_ret" /\ contentLen = 350001 /\ ~ret /\ ~allocated
    /\ "TTS playback failed" \in msgs

\* C11: a successful description response whose JSON body has the "text" field
\* with a non-string value makes postToBackend return the full raw body.
C11_NonStringTextYieldsRawBody ==
    (pc = "ptb_ret" /\ ret /\ respBody.json /\ respBody.key /\ ~respBody.str)
        => result = respBody.raw

\* C12: whenever postToBackend returns success, the reply text is non-empty: the
\* "text" field when the body is JSON with that field, else the entire raw body.
C12_ReplyNeverEmptyOnSuccess ==
    (pc = "ptb_ret" /\ ret)
        => /\ result # ""
           /\ result = (IF respBody.json /\ respBody.key THEN respBody.val ELSE respBody.raw)

\* C13: once playback has started it completes and the cycle returns to Idle,
\* whatever i2s_write reports (an error, zero bytes accepted).
C13_PlaybackAlwaysCompletes ==
    (pc = "spk_play") ~> (pc = "idle")

\* C14: after every describe/solve command the cycle eventually ends and the
\* device accepts the next command, whatever failure occurs in the cycle.
C14_CycleAlwaysEnds ==
    (sketch = "glasses" /\ pc = "cas_light") ~> (pc = "idle")

\* C15: in every describe/solve cycle connectivity and time synchronisation are
\* checked before the light is switched on and before a frame is requested.
C15_ChecksBeforeCapture ==
    pc \in {"cas_get1", "cas_discard", "cas_get2", "cas_encode"}
        => {"wifi", "time"} \subseteq checked

\* C16: when time synchronisation is not achieved, the cycle is aborted with a
\* warning: no description request and no speech request is sent in it.
C16_NoRequestWithoutTimeSync ==
    (sketch = "glasses" /\ "Warning: time not synced" \in msgs)
        => (~posted /\ ~fellBack /\ ~ttsSent)

\* C17: whenever the device waits for a command, the auxiliary light is off.
C17_LightOffAtIdle ==
    pc = "idle" => ~flash

\* C18: a speech body shorter than its declared Content-Length is never used:
\* speakText fails, the header is not parsed, nothing reaches the peripheral.
C18_ShortReadNeverPlayed ==
    (allocated /\ nread # contentLen)
        => /\ pc \in {"spk_read", "spk_ret", "cas_ret"}
           /\ nread < contentLen
           /\ parseRes = "none" /\ played = <<>> /\ zeroed = 0 /\ i2sCalls = 0
           /\ pc # "spk_read" => (~ret /\ "Audio read incomplete" \in msgs)

C18_Witness ==
    /\ pc = "spk_ret" /\ allocated /\ nread = Len(body) /\ nread > 0 /\ nread < contentLen
    /\ ~ret /\ "Audio read incomplete" \in msgs

\* C19: a response without Content-Length is read until the connection closes
\* and its body is handed to the caller, for the speech response (the buffer
\* holds the body) as for the description response (the reply is taken from it).
C19_NoLengthReadUntilClose ==
    /\ (pc = "spk_ret" /\ posted /\ PrimaryOk(code) /\ contentLen = -1) => buf = body
    /\ (pc = "ptb_ret" /\ posted /\ PrimaryOk(code)) => result = ExtractText(respBody)

\* C20: when parseWavHeader fails, speakText writes nothing to the peripheral,
\* does not zero its buffer and returns failure; the cycle reports it and ends.
C20_ParseFailureNeverPlays ==
    parseRes = "fail"
        => /\ pc \in {"spk_parsed", "spk_ret", "cas_ret"}
           /\ played = <<>> /\ zeroed = 0 /\ i2sCalls = 0 /\ pcmLen = 0
           /\ pc # "spk_parsed" => (~ret /\ "WAV parse failed" \in msgs)
           /\ pc = "cas_ret" => "TTS playback failed" \in msgs

C20_Witness ==
    /\ pc = "cas_ret" /\ parseRes = "fail" /\ WavMagicOk(buf) /\ nread = contentLen
    /\ ~ret /\ "WAV parse failed" \in msgs /\ "TTS playback failed" \in msgs

\* ------------------------------------------------ the command line as the spec reads it
\* a line spells the keyword w in some letter case, surrounding blanks aside
UpperCase(c) == IF c >= 97 /\ c <= 122 THEN c - 32 ELSE c

Spells(l, w) ==
    LET s == Trim(l)
    IN  Len(s) = Len(w) /\ \A i \in 1..Len(w) : UpperCase(s[i]) = UpperCase(w[i])

StartsCycle(p) ==
    /\ pc' = "cas_light" /\ prompt' = p /\ cycles' = cycles + 1
    /\ UNCHANGED <<devVars, camVars, cfgVars, reqVars, bodyVars, parseVars, playVars,
                   i2sClk>>

NothingButMessages ==
    UNCHANGED <<devVars, camVars, cfgVars, reqVars, cycVars, bodyVars, parseVars, playVars,
                pc, ret, i2sClk>>

RECURSIVE JsonStringBody(_)
JsonStringBody(s) ==
    IF s = <<>> THEN TRUE
    ELSE IF Head(s) < 32 \/ Head(s) = 34 THEN FALSE
    ELSE IF Head(s) = 92
         THEN /\ Len(s) >= 2
              /\ s[2] \in {34, 92, 47, 98, 102, 110, 114, 116}
              /\ JsonStringBody(Tail(Tail(s)))
    ELSE JsonStringBody(Tail(s))

\* C22: for every input, jsonEscape returns a string without raw control
\* characters in which every quote and backslash is escaped: a valid JSON
\* string value.
C22_EscapedIsJsonString ==
    pc = "esc_ret"
        => /\ \A i \in 1..Len(escaped) : escaped[i] >= 32
           /\ JsonStringBody(escaped)

\* C23: initI2S in a later cycle, after it succeeded in an earlier one with the
\* same sample rate, succeeds again and leaves the driver configured as before,
\* so that the cycle goes on to the speech request.
C23_SecondInitSucceeds ==
    [][ (pc = "i2s_init" /\ i2sInstalled /\ i2sClk = g_sampleRate)
          => (pc' = "spk_wifi" /\ i2sInstalled' /\ i2sClk' = i2sClk) ]_vars

\* ------------------------------------------------------ reading the cycle's record
Times(l, e) == Cardinality({i \in 1..Len(l) : l[i] = e})

IsPrefix(a, b) == Len(a) <= Len(b) /\ a = SubSeq(b, 1, Len(a))

\* the capture steps in the order the spec gives them
CaptureOrder ==
    <<"light_on", "settle", "frame_get", "frame_return", "frame_get", "encode",
      "frame_return", "light_off">>

Requests == {"desc_post", "desc_fallback", "tts_post"}

\* C24: per command the description request is attempted at most twice, once on
\* the primary path and at most once, after it, on the fallback; the speech
\* request at most once; nothing of a cycle is run a second time.
C24_NoAutomaticRetry ==
    /\ Times(log, "desc_post") <= 1
    /\ Times(log, "desc_fallback") <= 1
    /\ Times(log, "tts_post") <= 1
    /\ Times(log, "light_on") <= 1
    /\ \A i \in 1..Len(log) :
         /\ log[i] = "desc_fallback" => (i > 1 /\ log[i - 1] = "desc_post")
         /\ log[i] = "tts_post" => i = Len(log)

C24_Witness ==
    /\ pc = "cas_ret" /\ ~ret /\ code = 500 /\ status = 500
    /\ Times(log, "desc_post") = 1 /\ Times(log, "desc_fallback") = 1
    /\ Times(log, "tts_post") = 0

\* C25: the capture steps occur in the order light on, settle delay, first frame
\* obtained and returned unused, second frame obtained and encoded, frame
\* returned, light off; the light is off before the description request.
C25_CaptureOrder ==
    /\ \/ IsPrefix(log, CaptureOrder)
       \/ \E n \in {2, 4} : log = SubSeq(CaptureOrder, 1, n) \o <<"frame_none">>
       \/ /\ IsPrefix(CaptureOrder, log)
          /\ \A i \in (Len(CaptureOrder) + 1)..Len(log) : log[i] \in Requests
    /\ (\E i \in 1..Len(log) : log[i] \in Requests) => ~flash
    /\ pc \in {"ptb_wifi", "ptb_time", "ptb_begin", "ptb_post"}
          => (log = CaptureOrder /\ ~flash)

C25_Witness ==
    /\ pc = "ptb_connect" /\ log = CaptureOrder \o <<"desc_post">> /\ ~flash
    /\ fb = "returned" /\ fbOut = 0

\* C26: the time-synchronisation flag is sticky: once set it never goes back,
\* and no later call of ensureTimeSynced starts another time fetch.
C26_TimeSyncSticky ==
    [](~refetched) /\ [][synced => synced']_vars

C26_Witness ==
    /\ pc = "spk_begin" /\ synced /\ ~refetched /\ "time" \in checked
    /\ "Warning: time not synced" \notin msgs /\ cycles = 2

\* the fallback's body-write loop, and the length of the body it sends
BodyPcs == {"ptb_body", "raw_body"}
BodyLen == IF sketch = "rawcam" THEN JpegLen ELSE PayloadLen
StallReported ==
    IF sketch = "rawcam" THEN "Body write stalled" \in msgs' ELSE result' = "Body write stalled"

BodyWriteStep ==
    pc \in BodyPcs =>
      /\ toWrite' # toWrite =>
           /\ pc' = pc /\ asked' <= toWrite
           /\ pOff' > pOff /\ pOff' - pOff <= asked'
           /\ pOff' - pOff = toWrite - toWrite'
      /\ pc' # pc =>
           \/ toWrite = 0 /\ pOff = BodyLen /\ toWrite' = 0
           \/ /\ toWrite > 0 /\ toWrite' = toWrite /\ pOff' = pOff
              /\ ~sockOpen' /\ ~ret' /\ status' = -1 /\ respBody' = respBody
              /\ StallReported

\* C27: in the raw-socket fallback every body write is handed at most 1024
\* bytes, each write starts where the accepted bytes left off, the loop is
\* left only with every byte accepted or on a write that accepted nothing,
\* and that one closes the socket and fails without a response being read.
C27_BoundedOrderedBodyWrites ==
    /\ [](asked <= 1024 /\ (pc \in BodyPcs => pOff + toWrite = BodyLen /\ sockOpen))
    /\ [][BodyWriteStep]_vars

C27_Witness ==
    /\ pc = "ptb_ret" /\ fellBack /\ ret /\ status = 200 /\ ~sockOpen
    /\ toWrite = 0 /\ pOff = PayloadLen /\ asked = PayloadLen - 2048

\* C29: a connection is open only while its request is being sent or its
\* response read: the HTTP client's between POST and end(), the direct
\* socket's between connect and stop(); at every return of a sending function
\* and between requests both are closed.
C29_ConnectionsClosedOnReturn ==
    /\ httpOpen => pc \in {"spk_size", "spk_read"}
    /\ sockOpen => pc \in {"ptb_header", "ptb_body", "raw_header", "raw_body"}

C29_Witness ==
    /\ pc = "ptb_ret" /\ result = "Body write stalled" /\ pOff > 0 /\ toWrite > 0
    /\ ~sockOpen /\ ~httpOpen

\* the body the peer sent, line by line: the lines after the blank one
ReceivedBody == SubSeq(respIn, Len(HeaderLines) + 1, Len(respIn))

\* a is a prefix of b, both read as strings
RECURSIVE RunsPrefix(_, _)
RunsPrefix(a, b) ==
    IF a = <<>> THEN TRUE
    ELSE IF b = <<>> THEN FALSE
    ELSE IF a[1].c # b[1].c THEN FALSE
    ELSE IF a[1].n = b[1].n THEN RunsPrefix(Tail(a), Tail(b))
    ELSE a[1].n < b[1].n /\ Len(a) = 1

\* C28: the body accumulated by the fallback stays below the 4096-byte
\* ceiling, and is a prefix of the body that was received (line breaks, which
\* the read drops, left aside).
C28_AccumulatedIsPrefix ==
    pc = "resp_ret" =>
        /\ RunsLen(respAcc) < RespCeiling
        /\ RunsPrefix(respAcc, ReceivedBody)

\* the PCM range handed to i2sPlayPCM16, up to its first n bytes
PcmRange(n) == SubSeq(buf, dataOffset[2] + 1, dataOffset[2] + n)

PlayStep ==
    /\ (pc = "spk_play" /\ pc' = "spk_play") =>
          /\ written' >= written /\ written' - written <= 1024
          /\ played' = played \o SubSeq(buf, dataOffset[2] + written + 1,
                                             dataOffset[2] + written')
          /\ zeroed' = zeroed
    /\ (pc # "spk_play" /\ pc' = "spk_play") =>
          zeroed' = zeroed + 1 /\ written' = 0 /\ played' = <<>>
    /\ (pc = "spk_play" /\ pc' # "spk_play") =>
          zeroed' = zeroed + 1 /\ written = pcmLen /\ played' = played

\* C30: a PCM range is written in order, at most 1024 bytes a write, each
\* write starting at the accepted-byte count, and the loop is left only when
\* that count equals the range length; the output buffer is zeroed right
\* before the first write and right after the last.
C30_PlaysInOrderInChunks ==
    /\ [](pc = "spk_play" => written <= pcmLen /\ played = PcmRange(written) /\ zeroed = 1)
    /\ []((pc = "spk_ret" /\ ret) => played = PcmRange(pcmLen) /\ zeroed = 2)
    /\ [][PlayStep]_vars

C30_Witness ==
    /\ pc = "spk_ret" /\ ret /\ buf = LongWav /\ zeroed = 2
    /\ pcmLen = LongPcmLen /\ written = pcmLen /\ played = PcmRange(LongPcmLen)

\* a > b for 32-bit a, b
Above32(a, b) == a[1] > b[1] \/ (a[1] = b[1] /\ a[2] > b[2])

\* an iteration of the chunk walk that goes on to another one
CursorAdvances ==
    (pc = "wav_loop" /\ pc' = "wav_loop" /\ iters' # iters) => Above32(pos', pos)

\* C31: the chunk walk's cursor strictly increases on every iteration, so the
\* walk is over after at most len/8 iterations.
C31_WalkEndsWithinLenOver8 ==
    /\ [](iters * 8 <= nread)
    /\ [][CursorAdvances]_vars

\* C32: a container that parseWavHeader rejects leaves the session audio
\* configuration as it was before the call: the rate the peripheral was
\* clocked for by initI2S, and one channel.
C32_RejectedLeavesConfig ==
    (pc = "spk_parsed" /\ parseRes = "fail" /\ i2sInstalled)
        => (g_sampleRate = i2sClk /\ g_channels = 1)

\* the request is over: the 'finish' handler has returned and no reaction of a
\* file part is outstanding
UpQuiet == pc = "upload" /\ fin = "done" /\ \A i \in 1..Len(upFile) : upFile[i] = "done"

\* C33: the upload route writes exactly one response per request: never a
\* second one, and one by the time all its callbacks have run.
C33_ExactlyOneResponse ==
    /\ resCalls <= 1
    /\ UpQuiet => resCalls = 1

====
